---- MODULE Spec2Model ----
(***************************************************************************)
(* Task store of the todo application: the in-memory MemoryStore of        *)
(* specs/data-model.md (create / get / get_all / update / delete /         *)
(* toggle_completion, validate_title, validate_description) under the      *)
(* service layer that validates input, with the per-user scoping of the    *)
(* Phase II REST API (tasks carry a user_id, every query is filtered by    *)
(* it).                                                                    *)
(*                                                                         *)
(* Strings are kept in run-length form: a run of leading whitespace, a     *)
(* body that starts and ends with a non-whitespace character, a run of     *)
(* trailing whitespace.  len() and strip() are computed on that form.      *)
(* Timestamps are readings of a clock that never goes backwards and that   *)
(* may give the same reading to two successive operations.                 *)
(*                                                                         *)
(* The specifications share the variables and the actions:                 *)
(*   Spec            both users, every operation, within one clock reading;*)
(*   SpecClock       one user, every operation, while the clock advances;  *)
(*   SpecValidate    create and update on inputs around the length limits; *)
(*   SpecConcurrent  update, toggle and delete running statement by        *)
(*                   statement in handlers that overlap in time;           *)
(*   SpecRoute       the six endpoints behind the owner check of the route *)
(*                   layer;                                                *)
(*   SpecFrontend    the browser: sign in, Dashboard handlers, api.ts      *)
(*                   requests, the chat widget;                            *)
(*   SpecWrite       create, update, toggle and delete of both users;      *)
(*   SpecAuth        Home's sign-in and sign-up, the stored token, the     *)
(*                   Dashboard's mount and sign-out;                       *)
(*   SpecDashboard   the Dashboard's React state and its handlers, each    *)
(*                   split at its await, so that requests overlap;         *)
(*   SpecChat        the ChatBot's state, its requests and its reloads.    *)
(* api.ts chatWithAI has no caller in the frontend sources; the chat       *)
(* request is the one ChatBot.sendMessage sends.                           *)
(***************************************************************************)
EXTENDS Integers, Sequences, FiniteSets, TLC

VARIABLES tasks, next_id, clock, issued, last,
          reqs, verified, token, user, sent,
          route, home, dash, awaiting, hist, chat

vars == <<tasks, next_id, clock, issued, last, reqs, verified, token, user, sent,
          route, home, dash, awaiting, hist, chat>>

\* the components of the browser: the router's location, the state of Home,
\* of the Dashboard and of the ChatBot, the Dashboard handlers waiting for
\* their response, and what has been asked of the Dashboard so far
pages == <<route, home, dash, awaiting, hist, chat>>

\* the state of the browser: localStorage 'token', the Dashboard's user, the
\* requests sent to /api/{user_id}/...
front == <<token, user, sent, pages>>

\* what the operations of the store, called one at a time, leave alone
others == <<reqs, verified, token, user, sent, pages>>

\* ---------------------------------------------------------------- bounds
MaxId == 2
MaxClock == 1
MaxIdV == 1
MaxReq == 2
MaxCalls == 3

\* ------------------------------------------------------------- constants
MAX_TITLE == 200
MAX_DESCRIPTION == 1000

Users == {"A", "B"}
TaskIds == 1..MaxId

\* ---------------------------------------------------------------- strings
Str(pre, body, post) == [pre |-> pre, body |-> body, post |-> post]

EmptyStr == Str(0, 0, 0)

len(s) == s.pre + s.body + s.post

strip(s) == Str(0, s.body, 0)

\* ------------------------------------------------------------ validation
OK == "ok"

\* an off-by-one length check
validate_title_ge(title) ==
    IF len(title) = 0 \/ len(strip(title)) = 0
    THEN "Title cannot be empty"
    ELSE IF len(title) >= MAX_TITLE
         THEN "Title cannot exceed 200 characters"
         ELSE OK

validate_title(title) ==
    IF len(title) = 0 \/ len(strip(title)) = 0
    THEN "Title cannot be empty"
    ELSE IF len(title) > MAX_TITLE
         THEN "Title cannot exceed 200 characters"
         ELSE OK

\* an off-by-one length check
validate_description_ge(description) ==
    IF len(description) >= MAX_DESCRIPTION
    THEN "Description cannot exceed 1000 characters"
    ELSE OK

validate_description(description) ==
    IF len(description) > MAX_DESCRIPTION
    THEN "Description cannot exceed 1000 characters"
    ELSE OK

\* a service that checks the description before the title
ValidateInput_DescriptionFirst(title, description) ==
    IF len(description) > MAX_DESCRIPTION
    THEN [field |-> "description", msg |-> "Description cannot exceed 1000 characters"]
    ELSE IF len(title) = 0 \/ len(strip(title)) = 0
         THEN [field |-> "title", msg |-> "Title cannot be empty"]
         ELSE IF len(title) > MAX_TITLE
              THEN [field |-> "title", msg |-> "Title cannot exceed 200 characters"]
              ELSE [field |-> "none", msg |-> OK]

\* a service that checks the title only
ValidateInput_TitleOnly(title, description) ==
    IF len(title) = 0 \/ len(strip(title)) = 0
    THEN [field |-> "title", msg |-> "Title cannot be empty"]
    ELSE IF len(title) > MAX_TITLE
         THEN [field |-> "title", msg |-> "Title cannot exceed 200 characters"]
         ELSE [field |-> "none", msg |-> OK]

\* The service validates the title first and the description only once the
\* title is valid; the result names the field that failed.
ValidateInput(title, description) ==
    IF validate_title(title) # OK
    THEN [field |-> "title", msg |-> validate_title(title)]
    ELSE IF validate_description(description) # OK
         THEN [field |-> "description", msg |-> validate_description(description)]
         ELSE [field |-> "none", msg |-> OK]

\* ------------------------------------------------------------ the store
Task(id, user_id, title, description, completed, created_at, updated_at) ==
    [id |-> id, user_id |-> user_id, title |-> title,
     description |-> description, completed |-> completed,
     created_at |-> created_at, updated_at |-> updated_at]

\* position of the key task_id in the dictionary, 0 when absent
IndexOf(store, task_id) ==
    IF \E k \in 1..Len(store) : store[k].id = task_id
    THEN CHOOSE k \in 1..Len(store) : store[k].id = task_id
    ELSE 0

\* MemoryStore.get: the task as a one-element sequence, <<>> for None
get(store, task_id) ==
    IF IndexOf(store, task_id) = 0 THEN <<>>
    ELSE <<store[IndexOf(store, task_id)]>>

\* MemoryStore.get_all: the values of the dictionary in insertion order
get_all(store) == store

\* a query that is not filtered by user_id
OwnedBy_Unfiltered(user_id, rows) == rows

\* the row filter of the REST API: only the rows of user_id
OwnedBy(user_id, rows) ==
    SelectSeq(rows, LAMBDA t : t.user_id = user_id)

\* a lookup by id alone
get_task_Unscoped(store, user_id, task_id) == get(store, task_id)

get_task(store, user_id, task_id) == OwnedBy(user_id, get(store, task_id))

list_tasks(store, user_id) == OwnedBy(user_id, get_all(store))

\* an allocator that hands out the lowest id no stored task has
generate_id_lowest_free(store, nid) ==
    CHOOSE i \in 1..(Len(store) + 1) :
       /\ IndexOf(store, i) = 0
       /\ \A j \in 1..(i - 1) : IndexOf(store, j) # 0

\* a counter derived from the number of stored tasks instead of _next_id
generate_id_len(store, nid) == Len(store) + 1

\* MemoryStore._generate_id: the id handed out (current_id = self._next_id)
generate_id(store, nid) == nid

\* a creation that reads the clock a second time for updated_at
create_two_readings(task_id, user_id, title, description, now) ==
    Task(task_id, user_id, strip(title), strip(description),
         FALSE, now, now + 1)

\* MemoryStore.create: the new record
create(task_id, user_id, title, description, now) ==
    Task(task_id, user_id, strip(title), strip(description),
         FALSE, now, now)

\* an assignment that drops the key and inserts it again at the end
SetItem_MoveToEnd(store, task) ==
    Append(SelectSeq(store, LAMBDA t : t.id # task.id), task)

\* self._tasks[task_id] = task: a new key is appended, an existing key keeps
\* its position
SetItem(store, task) ==
    IF IndexOf(store, task.id) = 0 THEN Append(store, task)
    ELSE [store EXCEPT ![IndexOf(store, task.id)] = task]

\* a removal that drops the key and every key inserted after it
DelItem_Truncate(store, task_id) ==
    SelectSeq(store, LAMBDA t : t.id < task_id)

\* del self._tasks[task_id]
DelItem(store, task_id) ==
    SelectSeq(store, LAMBDA t : t.id # task_id)

\* MemoryStore.delete on the dictionary: the remaining dictionary and the
\* value returned
delete_no_del(store, task_id) ==
    [tasks |-> store, removed |-> IndexOf(store, task_id) # 0]

delete(store, task_id) ==
    IF IndexOf(store, task_id) # 0
    THEN [tasks |-> DelItem(store, task_id), removed |-> TRUE]
    ELSE [tasks |-> store, removed |-> FALSE]

\* an update that stores the title and description as given
update_unstripped(task, title, description, now) ==
    Task(task.id, task.user_id, title, description,
         task.completed, task.created_at, now)

\* an update that stamps created_at as well
update_restamp(task, title, description, now) ==
    Task(task.id, task.user_id, strip(title), strip(description),
         task.completed, now, now)

\* MemoryStore.update: the replacing record
update(task, title, description, now) ==
    Task(task.id, task.user_id, strip(title), strip(description),
         task.completed, task.created_at, now)

\* a toggle that keeps the old updated_at
toggle_stale(task, now) ==
    Task(task.id, task.user_id, task.title, task.description,
         ~task.completed, task.created_at, task.updated_at)

\* a toggle that stamps created_at as well
toggle_restamp(task, now) ==
    Task(task.id, task.user_id, task.title, task.description,
         ~task.completed, now, now)

\* a "mark complete" that sets the flag instead of flipping it
toggle_mark_complete(task, now) ==
    Task(task.id, task.user_id, task.title, task.description,
         TRUE, task.created_at, now)

\* MemoryStore.toggle_completion: the replacing record
toggle_completion(task, now) ==
    Task(task.id, task.user_id, task.title, task.description,
         ~task.completed, task.created_at, now)

\* ------------------------------------------- the store after an operation
\* an update, toggle or delete with its arguments and its reading of the clock
Op(kind, user_id, task_id, title, description, now) ==
    [kind |-> kind, user_id |-> user_id, task_id |-> task_id, title |-> title,
     description |-> description, now |-> now]

\* The dictionary a service operation leaves behind: update validates, looks
\* the task up and replaces it; toggle looks it up and replaces it; delete
\* removes it; a rejected operation leaves the dictionary as it is.
Apply(store, op) ==
    LET found == get_task(store, op.user_id, op.task_id)
    IN  IF found = <<>> THEN store
        ELSE IF op.kind = "update"
        THEN IF ValidateInput(op.title, op.description).msg # OK THEN store
             ELSE SetItem(store, update(found[1], op.title, op.description, op.now))
        ELSE IF op.kind = "toggle"
        THEN SetItem(store, toggle_completion(found[1], op.now))
        ELSE delete(store, op.task_id).tasks

\* ------------------------------------------------------- operation record
Call(op, user_id, task_id, title, description, completed, res, field, msg, out, removed) ==
    [op |-> op, user_id |-> user_id, task_id |-> task_id, title |-> title,
     description |-> description, completed |-> completed, res |-> res,
     field |-> field, msg |-> msg, out |-> out, removed |-> removed]

NoCall == Call("none", "A", 0, EmptyStr, EmptyStr, FALSE, OK, "none", OK, <<>>, FALSE)

\* ------------------------------------------------- requests in progress
\* the request handlers that may run at the same time
Requests == 1..MaxReq

\* One store operation in progress: the call, where it stands (idle, found =
\* its read of the dictionary found the task, done), the task it read, and
\* its outcome.
Request(op, user_id, task_id, title, description, pc, snap, res, out, removed) ==
    [op |-> op, user_id |-> user_id, task_id |-> task_id, title |-> title,
     description |-> description, pc |-> pc, snap |-> snap, res |-> res,
     out |-> out, removed |-> removed]

Idle == Request("none", "A", 0, EmptyStr, EmptyStr, "idle", <<>>, OK, <<>>, FALSE)

\* ------------------------------------------------------------ the browser
\* localStorage.getItem('token') when nothing is stored, useState<User | null>(null)
NoToken == "null"
NoUser == "null"

\* the access_token the server issues to a user
TokenOf(u) == IF u = "A" THEN "tokenA" ELSE "tokenB"

\* the user /auth/me answers for a token
UserOf(t) == IF t = "tokenA" THEN "A" ELSE "B"

\* Home: useState(false), useState(''), useState(false); no submit waiting
NoError == ""
HomeInit == [isSignUp |-> FALSE, error |-> NoError, loading |-> FALSE, waiting |-> <<>>]

\* Dashboard: the initial values of its useState hooks
DashboardInit ==
    [tasks |-> <<>>, loading |-> TRUE, newTaskTitle |-> EmptyStr,
     newTaskDescription |-> EmptyStr, editingTask |-> <<>>, filter |-> "all",
     showAddTask |-> FALSE]

\* ChatBot: message '', loading false, no request in flight
ChatBotInit ==
    [isOpen |-> FALSE, message |-> EmptyStr, chatHistory |-> <<>>,
     loading |-> FALSE, inflight |-> 0]

Init ==
    /\ tasks = <<>>
    /\ next_id = 1
    /\ clock = 0
    /\ issued = <<>>
    /\ last = NoCall
    /\ reqs = [r \in Requests |-> Idle]
    /\ verified = "A"
    /\ token = NoToken
    /\ user = NoUser
    /\ sent = {}
    /\ route = "/"
    /\ home = HomeInit
    /\ dash = DashboardInit
    /\ awaiting = {}
    /\ hist = [calls |-> 0, failed |-> FALSE, signedOut |-> FALSE, redirected |-> FALSE]
    /\ chat = ChatBotInit

\* ---------------------------------------------------------------- actions
Tick ==
    /\ clock < MaxClock
    /\ clock' = clock + 1
    /\ UNCHANGED <<tasks, next_id, issued, last>>
    /\ UNCHANGED others

\* a creation that draws the id before it validates the input
CreateTask_IdFirst(user_id, title, description, bound) ==
    LET v == ValidateInput(title, description)
        task == create(generate_id(tasks, next_id), user_id, title, description, clock)
    IN  /\ next_id <= bound
        /\ next_id' = next_id + 1
        /\ IF v.msg # OK
           THEN /\ last' = Call("create", user_id, 0, title, description, FALSE,
                                "InvalidTaskDataError", v.field, v.msg, <<>>, FALSE)
                /\ UNCHANGED <<tasks, clock, issued>>
           ELSE /\ issued' = Append(issued, task.id)
                /\ tasks' = SetItem(tasks, task)
                /\ last' = Call("create", user_id, 0, title, description, FALSE,
                                OK, "none", OK, <<task>>, FALSE)
                /\ UNCHANGED clock

CreateTask(user_id, title, description, bound) ==
    LET v == ValidateInput(title, description)
        task == create(generate_id(tasks, next_id), user_id, title, description, clock)
    IN  IF v.msg # OK
        THEN /\ last' = Call("create", user_id, 0, title, description, FALSE,
                             "InvalidTaskDataError", v.field, v.msg, <<>>, FALSE)
             /\ UNCHANGED <<tasks, next_id, clock, issued>>
        ELSE /\ next_id <= bound
             /\ next_id' = next_id + 1
             /\ issued' = Append(issued, task.id)
             /\ tasks' = SetItem(tasks, task)
             /\ last' = Call("create", user_id, 0, title, description, FALSE,
                             OK, "none", OK, <<task>>, FALSE)
             /\ UNCHANGED clock

\* an update that is found missing before its input is looked at
UpdateTask_ExistenceFirst(user_id, task_id, title, description) ==
    LET v == ValidateInput(title, description)
        found == get_task(tasks, user_id, task_id)
    IN  IF found = <<>>
        THEN /\ last' = Call("update", user_id, task_id, title, description, FALSE,
                             "TaskNotFoundError", "none", "Task not found", <<>>, FALSE)
             /\ UNCHANGED <<tasks, next_id, clock, issued>>
        ELSE IF v.msg # OK
        THEN /\ last' = Call("update", user_id, task_id, title, description, FALSE,
                             "InvalidTaskDataError", v.field, v.msg, <<>>, FALSE)
             /\ UNCHANGED <<tasks, next_id, clock, issued>>
        ELSE /\ tasks' = SetItem(tasks, update(found[1], title, description, clock))
             /\ last' = Call("update", user_id, task_id, title, description, FALSE,
                             OK, "none", OK,
                             <<update(found[1], title, description, clock)>>, FALSE)
             /\ UNCHANGED <<next_id, clock, issued>>

UpdateTask(user_id, task_id, title, description) ==
    LET v == ValidateInput(title, description)
        found == get_task(tasks, user_id, task_id)
    IN  IF v.msg # OK
        THEN /\ last' = Call("update", user_id, task_id, title, description, FALSE,
                             "InvalidTaskDataError", v.field, v.msg, <<>>, FALSE)
             /\ UNCHANGED <<tasks, next_id, clock, issued>>
        ELSE IF found = <<>>
        THEN /\ last' = Call("update", user_id, task_id, title, description, FALSE,
                             "TaskNotFoundError", "none", "Task not found", <<>>, FALSE)
             /\ UNCHANGED <<tasks, next_id, clock, issued>>
        ELSE /\ tasks' = SetItem(tasks, update(found[1], title, description, clock))
             /\ last' = Call("update", user_id, task_id, title, description, FALSE,
                             OK, "none", OK,
                             <<update(found[1], title, description, clock)>>, FALSE)
             /\ UNCHANGED <<next_id, clock, issued>>

ToggleCompletion(user_id, task_id, completed) ==
    LET found == get_task(tasks, user_id, task_id)
    IN  IF found = <<>>
        THEN /\ last' = Call("toggle", user_id, task_id, EmptyStr, EmptyStr, completed,
                             "TaskNotFoundError", "none", "Task not found", <<>>, FALSE)
             /\ UNCHANGED <<tasks, next_id, clock, issued>>
        ELSE /\ tasks' = SetItem(tasks, toggle_completion(found[1], clock))
             /\ last' = Call("toggle", user_id, task_id, EmptyStr, EmptyStr, completed,
                             OK, "none", OK, <<toggle_completion(found[1], clock)>>, FALSE)
             /\ UNCHANGED <<next_id, clock, issued>>

DeleteTask(user_id, task_id) ==
    LET found == get_task(tasks, user_id, task_id)
    IN  IF found # <<>>
        THEN /\ tasks' = delete(tasks, task_id).tasks
             /\ last' = Call("delete", user_id, task_id, EmptyStr, EmptyStr, FALSE,
                             OK, "none", OK, <<>>, delete(tasks, task_id).removed)
             /\ UNCHANGED <<next_id, clock, issued>>
        ELSE /\ last' = Call("delete", user_id, task_id, EmptyStr, EmptyStr, FALSE,
                             OK, "none", OK, <<>>, FALSE)
             /\ UNCHANGED <<tasks, next_id, clock, issued>>

GetTask(user_id, task_id) ==
    LET found == get_task(tasks, user_id, task_id)
    IN  /\ last' = Call("get", user_id, task_id, EmptyStr, EmptyStr, FALSE,
                        IF found = <<>> THEN "TaskNotFoundError" ELSE OK,
                        "none",
                        IF found = <<>> THEN "Task not found" ELSE OK,
                        found, FALSE)
        /\ UNCHANGED <<tasks, next_id, clock, issued>>

ListTasks(user_id) ==
    /\ last' = Call("list", user_id, 0, EmptyStr, EmptyStr, FALSE,
                    OK, "none", OK, list_tasks(tasks, user_id), FALSE)
    /\ UNCHANGED <<tasks, next_id, clock, issued>>

\* ------------------------------------- the operations, statement by statement
\* The service call up to and including the read of MemoryStore.update
\* (task = self._tasks.get(task_id); if task is None: raise).
BeginUpdate(r, user_id, task_id, title, description) ==
    LET v == ValidateInput(title, description)
        found == get_task(tasks, user_id, task_id)
    IN  /\ reqs[r].pc = "idle"
        /\ reqs' = [reqs EXCEPT ![r] =
                      IF v.msg # OK
                      THEN Request("update", user_id, task_id, title, description,
                                   "done", <<>>, "InvalidTaskDataError", <<>>, FALSE)
                      ELSE IF found = <<>>
                      THEN Request("update", user_id, task_id, title, description,
                                   "done", <<>>, "TaskNotFoundError", <<>>, FALSE)
                      ELSE Request("update", user_id, task_id, title, description,
                                   "found", found, OK, <<>>, FALSE)]
        /\ UNCHANGED <<tasks, next_id, clock, issued, last>>

\* The rest of MemoryStore.update: the record built from the task that was
\* read replaces whatever the dictionary holds now
\* (self._tasks[task_id] = updated_task; return updated_task).
EndUpdate(r) ==
    LET q == reqs[r]
        updated_task == update(q.snap[1], q.title, q.description, clock)
    IN  /\ q.pc = "found"
        /\ q.op = "update"
        /\ tasks' = SetItem(tasks, updated_task)
        /\ reqs' = [reqs EXCEPT ![r] = [q EXCEPT !.pc = "done", !.out = <<updated_task>>]]
        /\ UNCHANGED <<next_id, clock, issued, last>>

\* MemoryStore.toggle_completion up to and including its read
BeginToggle(r, user_id, task_id) ==
    LET found == get_task(tasks, user_id, task_id)
    IN  /\ reqs[r].pc = "idle"
        /\ reqs' = [reqs EXCEPT ![r] =
                      IF found = <<>>
                      THEN Request("toggle", user_id, task_id, EmptyStr, EmptyStr,
                                   "done", <<>>, "TaskNotFoundError", <<>>, FALSE)
                      ELSE Request("toggle", user_id, task_id, EmptyStr, EmptyStr,
                                   "found", found, OK, <<>>, FALSE)]
        /\ UNCHANGED <<tasks, next_id, clock, issued, last>>

\* The rest of MemoryStore.toggle_completion: the whole record is replaced
EndToggle(r) ==
    LET q == reqs[r]
        updated_task == toggle_completion(q.snap[1], clock)
    IN  /\ q.pc = "found"
        /\ q.op = "toggle"
        /\ tasks' = SetItem(tasks, updated_task)
        /\ reqs' = [reqs EXCEPT ![r] = [q EXCEPT !.pc = "done", !.out = <<updated_task>>]]
        /\ UNCHANGED <<next_id, clock, issued, last>>

\* MemoryStore.delete up to its test (if task_id in self._tasks)
BeginDelete(r, user_id, task_id) ==
    LET found == get_task(tasks, user_id, task_id)
    IN  /\ reqs[r].pc = "idle"
        /\ reqs' = [reqs EXCEPT ![r] =
                      IF found = <<>>
                      THEN Request("delete", user_id, task_id, EmptyStr, EmptyStr,
                                   "done", <<>>, OK, <<>>, FALSE)
                      ELSE Request("delete", user_id, task_id, EmptyStr, EmptyStr,
                                   "found", found, OK, <<>>, FALSE)]
        /\ UNCHANGED <<tasks, next_id, clock, issued, last>>

\* The rest of MemoryStore.delete (del self._tasks[task_id]; return True);
\* del raises KeyError when the key has gone since the test
EndDelete(r) ==
    LET q == reqs[r]
    IN  /\ q.pc = "found"
        /\ q.op = "delete"
        /\ IF IndexOf(tasks, q.task_id) # 0
           THEN /\ tasks' = DelItem(tasks, q.task_id)
                /\ reqs' = [reqs EXCEPT ![r] = [q EXCEPT !.pc = "done", !.removed = TRUE]]
           ELSE /\ tasks' = tasks
                /\ reqs' = [reqs EXCEPT ![r] = [q EXCEPT !.pc = "done", !.res = "KeyError"]]
        /\ UNCHANGED <<next_id, clock, issued, last>>

\* ---------------------------------------------------------- the route layer
\* a route that calls the service for whatever user_id the path names
Route_Unchecked(v, path_user, act) ==
    /\ verified' = v
    /\ act

\* A request to /api/{path_user}/... whose credential the Auth Verifier maps
\* to v: the operation runs only when the two are equal, any other request
\* is answered Forbidden before the service is called.
Route(v, path_user, act) ==
    /\ verified' = v
    /\ IF v = path_user
       THEN act
       ELSE /\ last' = Call("route", path_user, 0, EmptyStr, EmptyStr, FALSE,
                            "Forbidden", "none", "Forbidden", <<>>, FALSE)
            /\ UNCHANGED <<tasks, next_id, clock, issued>>

\* ------------------------------------------------- the browser's requests
Header(name, value) == [name |-> name, value |-> value]

\* api.ts getAuthHeaders: token ? { Authorization: `Bearer ${token}` } : {}
getAuthHeaders(tok) ==
    IF tok # NoToken THEN {Header("Authorization", <<"Bearer", tok>>)} ELSE {}

\* a request to `${API_URL}/api/${userId}/...`
ApiRequest(method, user_id, path, headers) ==
    [method |-> method, user_id |-> user_id, path |-> path, headers |-> headers]

\* api.ts: the request each function hands to axios
getTasks(userId, tok) == ApiRequest("GET", userId, "tasks", getAuthHeaders(tok))
createTask(userId, tok) == ApiRequest("POST", userId, "tasks", getAuthHeaders(tok))
updateTask(userId, tok) == ApiRequest("PUT", userId, "tasks/id", getAuthHeaders(tok))
deleteTask(userId, tok) == ApiRequest("DELETE", userId, "tasks/id", getAuthHeaders(tok))
toggleTaskCompletion(userId, tok) ==
    ApiRequest("PATCH", userId, "tasks/id/complete", getAuthHeaders(tok))

\* chatbot.tsx: the request ChatBot.sendMessage hands to fetch
sendMessageRequest(userId) ==
    ApiRequest("POST", userId, "chat", {Header("Content-Type", <<"application/json">>)})

\* auth.ts signInApi / signUpApi on the sign-in page: the token is stored
\* when the response is ok and carries an access_token
SignInApi(u, ok, has_token) ==
    /\ user = NoUser
    /\ token' = IF ok /\ has_token THEN TokenOf(u) ELSE token
    /\ UNCHANGED <<user, sent>>

SignUpApi(u, ok, has_token) ==
    /\ user = NoUser
    /\ token' = IF ok /\ has_token THEN TokenOf(u) ELSE token
    /\ UNCHANGED <<user, sent>>

\* Dashboard useEffect fetchUser: getCurrentUser (null without a token or
\* when /auth/me does not answer ok), then setUser and loadTasks
FetchUser(ok) ==
    /\ user = NoUser
    /\ IF token = NoToken \/ ~ok
       THEN UNCHANGED <<token, user, sent>>
       ELSE /\ user' = UserOf(token)
            /\ sent' = sent \cup {getTasks(UserOf(token), token)}
            /\ UNCHANGED token

\* Dashboard handlers: each returns at once without a user
HandleCreateTask(blank) ==
    /\ user # NoUser
    /\ sent' = IF blank THEN sent ELSE sent \cup {createTask(user, token)}
    /\ UNCHANGED <<token, user>>

HandleUpdateTask ==
    /\ user # NoUser
    /\ sent' = sent \cup {updateTask(user, token)}
    /\ UNCHANGED <<token, user>>

HandleDeleteTask ==
    /\ user # NoUser
    /\ sent' = sent \cup {deleteTask(user, token)}
    /\ UNCHANGED <<token, user>>

HandleToggleComplete ==
    /\ user # NoUser
    /\ sent' = sent \cup {toggleTaskCompletion(user, token)}
    /\ UNCHANGED <<token, user>>

\* ChatBot.sendMessage (the widget is rendered once the Dashboard has a
\* user): nothing for a blank message, else the chat request and, when it
\* is answered, onTasksChanged = loadTasks(user.id)
SendMessage(blank, ok) ==
    /\ user # NoUser
    /\ sent' = IF blank THEN sent
               ELSE sent \cup {sendMessageRequest(user)}
                         \cup (IF ok THEN {getTasks(user, token)} ELSE {})
    /\ UNCHANGED <<token, user>>

\* Dashboard handleSignOut: signOut removes the token and leaves the page
HandleSignOut ==
    /\ user # NoUser
    /\ token' = NoToken
    /\ user' = NoUser
    /\ UNCHANGED sent

\* ------------------------------------------------------ sign in and out
\* auth.ts getToken: the stored item, null when there is none
getToken(stored) == stored

\* auth.ts getCurrentUser: null at once without a token, else the answer of
\* /auth/me (null when it is not ok); fetched is the request it made
getCurrentUser_AlwaysFetch(tok, ok) ==
    [user |-> IF tok # NoToken /\ ok THEN UserOf(tok) ELSE NoUser,
     fetched |-> {ApiRequest("GET", NoUser, "auth/me",
                             {Header("Authorization", <<"Bearer", tok>>)})}]

getCurrentUser(tok, ok) ==
    IF tok = NoToken
    THEN [user |-> NoUser, fetched |-> {}]
    ELSE [user |-> IF ok THEN UserOf(tok) ELSE NoUser,
          fetched |-> {ApiRequest("GET", NoUser, "auth/me",
                                  {Header("Authorization", <<"Bearer", tok>>)})}]

\* a Dashboard handler suspended at its await: the handler, the tasks and
\* editingTask of the render it was called in, the task it is about, and the
\* response it will resume with
Continuation(handler, closure_tasks, editingTask, task_id, ok, data) ==
    [handler |-> handler, tasks |-> closure_tasks, editingTask |-> editingTask,
     task_id |-> task_id, ok |-> ok, data |-> data]

\* Home: setIsSignUp(!isSignUp)
ToggleSignUp ==
    /\ route = "/"
    /\ home' = [home EXCEPT !.isSignUp = ~@]
    /\ UNCHANGED <<route, token, user, sent, dash, awaiting, hist, chat>>

\* Home.handleSubmit up to its await (the submit button is disabled while
\* loading): setError(''), setLoading(true), the request of signUpApi or
\* signInApi chosen by isSignUp; u, ok and has_token are the server's answer
HandleSubmitAwait(u, ok, has_token) ==
    /\ route = "/"
    /\ ~home.loading
    /\ home' = [home EXCEPT !.error = NoError, !.loading = TRUE,
                            !.waiting = <<[isSignUp |-> home.isSignUp, u |-> u,
                                           ok |-> ok, has_token |-> has_token]>>]
    /\ UNCHANGED <<route, token, user, sent, dash, awaiting, hist, chat>>

\* a handleSubmit that navigates whatever the answer
HandleSubmitResume_AlwaysPush ==
    LET w == home.waiting[1]
    IN  /\ home.waiting # <<>>
        /\ IF w.isSignUp THEN SignUpApi(w.u, w.ok, w.has_token)
                         ELSE SignInApi(w.u, w.ok, w.has_token)
        /\ home' = [home EXCEPT !.loading = FALSE, !.waiting = <<>>,
                      !.error = IF w.ok THEN @
                                ELSE IF w.isSignUp THEN "Sign up failed"
                                                   ELSE "Sign in failed"]
        /\ route' = "/dashboard"
        /\ hist' = [hist EXCEPT !.signedOut = @ /\ ~(w.ok /\ w.has_token)]
        /\ UNCHANGED <<dash, awaiting, chat>>

\* Home.handleSubmit from the answer on: signUpApi / signInApi store the
\* token or throw; router.push('/dashboard') unless it threw, setError in the
\* catch, setLoading(false) in the finally
HandleSubmitResume ==
    LET w == home.waiting[1]
    IN  /\ home.waiting # <<>>
        /\ IF w.isSignUp THEN SignUpApi(w.u, w.ok, w.has_token)
                         ELSE SignInApi(w.u, w.ok, w.has_token)
        /\ home' = [home EXCEPT !.loading = FALSE, !.waiting = <<>>,
                      !.error = IF w.ok THEN @
                                ELSE IF w.isSignUp THEN "Sign up failed"
                                                   ELSE "Sign in failed"]
        /\ route' = IF w.ok THEN "/dashboard" ELSE route
        /\ hist' = [hist EXCEPT !.signedOut = @ /\ ~(w.ok /\ w.has_token)]
        /\ UNCHANGED <<dash, awaiting, chat>>

\* The Dashboard mounts: useEffect fetchUser. Without a current user
\* router.push('/'); else setUser and loadTasks, whose getTasks request is
\* answered with the user's list (load_ok) or fails.
MountDashboard(ok, load_ok) ==
    LET currentUser == getCurrentUser(token, ok)
    IN  /\ route = "/dashboard"
        /\ user = NoUser
        /\ IF currentUser.user = NoUser
           THEN /\ route' = "/"
                /\ sent' = sent \cup currentUser.fetched
                /\ UNCHANGED <<user, dash, awaiting>>
           ELSE /\ user' = currentUser.user
                /\ sent' = sent \cup currentUser.fetched
                                \cup {getTasks(currentUser.user, token)}
                /\ dash' = DashboardInit
                /\ awaiting' = awaiting \cup
                      {Continuation("loadTasks", <<>>, <<>>, 0, load_ok,
                                    IF load_ok
                                    THEN list_tasks(tasks, currentUser.user)
                                    ELSE <<>>)}
                /\ UNCHANGED route
        /\ hist' = [hist EXCEPT !.redirected = currentUser.user = NoUser]
        /\ UNCHANGED <<token, home, chat>>

\* Dashboard handleSignOut with the page it leaves: the token is removed,
\* the location becomes '/', the Dashboard and the ChatBot are unmounted
SignOutAndLeave ==
    /\ route = "/dashboard"
    /\ HandleSignOut
    /\ route' = "/"
    /\ dash' = DashboardInit
    /\ awaiting' = {}
    /\ chat' = ChatBotInit
    /\ hist' = [hist EXCEPT !.signedOut = TRUE, !.redirected = FALSE]
    /\ UNCHANGED home

\* ------------------------------------------------------------ Dashboard
Filters == {"all", "active", "completed"}

\* Dashboard filteredTasks
filteredTasks(ts, filter) ==
    IF filter = "active" THEN SelectSeq(ts, LAMBDA t : ~t.completed)
    ELSE IF filter = "completed" THEN SelectSeq(ts, LAMBDA t : t.completed)
    ELSE ts

\* a count of every task, completed or not
completedCount_All(ts) == Len(ts)

\* tasks.filter(t => t.completed).length
completedCount(ts) == Len(SelectSeq(ts, LAMBDA t : t.completed))

\* tasks.length - completedCount
activeCount(ts) == Len(ts) - completedCount(ts)

\* Math.round((completedCount / tasks.length) * 100), 0 without tasks
completionPercentage(ts) ==
    IF Len(ts) > 0
    THEN (200 * completedCount(ts) + Len(ts)) \div (2 * Len(ts))
    ELSE 0

\* tasks.map(t => t.id === id ? updated : t)
MapReplace(ts, id, updated) ==
    [k \in 1..Len(ts) |-> IF ts[k].id = id THEN updated ELSE ts[k]]

\* tasks.filter(t => t.id !== id)
FilterOut(ts, id) == SelectSeq(ts, LAMBDA t : t.id # id)

\* a continuation that clears the add form and the edit mode whatever the
\* response was
resume_ClearAlways(d, c) ==
    IF c.handler = "loadTasks"
    THEN [d EXCEPT !.tasks = IF c.ok THEN c.data ELSE @, !.loading = FALSE]
    ELSE IF c.handler = "handleCreateTask"
    THEN [d EXCEPT !.tasks = IF c.ok THEN c.data \o c.tasks ELSE @,
                   !.newTaskTitle = EmptyStr,
                   !.newTaskDescription = EmptyStr,
                   !.showAddTask = FALSE]
    ELSE IF c.handler = "handleToggleComplete"
    THEN IF c.ok THEN [d EXCEPT !.tasks = MapReplace(c.tasks, c.task_id, c.data[1])]
                 ELSE d
    ELSE IF c.handler = "handleDeleteTask"
    THEN IF c.ok THEN [d EXCEPT !.tasks = FilterOut(c.tasks, c.task_id)] ELSE d
    ELSE [d EXCEPT !.tasks = IF c.ok THEN MapReplace(c.tasks, c.task_id, c.data[1])
                             ELSE @,
                   !.editingTask = <<>>]

\* The state a handler leaves when it resumes after its await with the
\* response c.ok / c.data: every setTasks is computed from the tasks of the
\* render the handler was called in (c.tasks); a failed request goes to the
\* catch, which only logs; loadTasks ends with setLoading(false) either way.
resume(d, c) ==
    IF c.handler = "loadTasks"
    THEN [d EXCEPT !.tasks = IF c.ok THEN c.data ELSE @, !.loading = FALSE]
    ELSE IF ~c.ok
    THEN d
    ELSE IF c.handler = "handleCreateTask"
    THEN [d EXCEPT !.tasks = c.data \o c.tasks,
                   !.newTaskTitle = EmptyStr,
                   !.newTaskDescription = EmptyStr,
                   !.showAddTask = FALSE]
    ELSE IF c.handler = "handleToggleComplete"
    THEN [d EXCEPT !.tasks = MapReplace(c.tasks, c.task_id, c.data[1])]
    ELSE IF c.handler = "handleDeleteTask"
    THEN [d EXCEPT !.tasks = FilterOut(c.tasks, c.task_id)]
    ELSE [d EXCEPT !.tasks = MapReplace(c.tasks, c.task_id, c.data[1]),
                   !.editingTask = <<>>]

\* a suspended handler receives its response and runs to its end
Resume(c) ==
    /\ c \in awaiting
    /\ dash' = resume(dash, c)
    /\ awaiting' = awaiting \ {c}
    /\ UNCHANGED <<route, home, hist, chat, token, user, sent>>

\* the controls below the spinner exist once a user is set and the first
\* load has ended
Shown == route = "/dashboard" /\ user # NoUser /\ ~dash.loading

\* one more request of the Dashboard, answered ok or not
Counted(ok) ==
    hist' = [hist EXCEPT !.calls = @ + 1, !.failed = @ \/ ~ok]

\* onClick={() => setFilter(f)}
SetFilter(f) ==
    /\ Shown
    /\ dash.filter # f
    /\ dash' = [dash EXCEPT !.filter = f]
    /\ UNCHANGED <<route, home, hist, chat, token, user, sent, awaiting>>

\* onClick={() => setShowAddTask(true)} / the form's Cancel
SetShowAddTask(b) ==
    /\ Shown
    /\ dash.showAddTask # b
    /\ dash' = [dash EXCEPT !.showAddTask = b]
    /\ UNCHANGED <<route, home, hist, chat, token, user, sent, awaiting>>

\* the add form's onChange handlers: a title and a description are typed
TypeNewTask(title, description) ==
    /\ Shown
    /\ dash.showAddTask
    /\ dash' = [dash EXCEPT !.newTaskTitle = title,
                            !.newTaskDescription = description]
    /\ dash' # dash
    /\ UNCHANGED <<route, home, hist, chat, token, user, sent, awaiting>>

\* onClick={() => setEditingTask(task)} on a displayed row, or Cancel
SetEditingTask(e) ==
    /\ Shown
    /\ dash.editingTask # e
    /\ dash' = [dash EXCEPT !.editingTask = e]
    /\ UNCHANGED <<route, home, hist, chat, token, user, sent, awaiting>>

\* the edit form's onChange handlers
TypeEdit(title, description) ==
    /\ Shown
    /\ dash.editingTask # <<>>
    /\ dash' = [dash EXCEPT !.editingTask =
                  <<[dash.editingTask[1] EXCEPT !.title = title,
                                                !.description = description]>>]
    /\ dash' # dash
    /\ UNCHANGED <<route, home, hist, chat, token, user, sent, awaiting>>

\* handleCreateTask up to its await: it returns at once for a title that is
\* blank after trim; else the create request reaches the store and the
\* handler waits for the response (net_ok: the response arrives)
HandleCreateTaskAwait(net_ok, bound) ==
    /\ Shown
    /\ dash.showAddTask
    /\ hist.calls < MaxCalls
    /\ len(strip(dash.newTaskTitle)) > 0
    /\ CreateTask(user, dash.newTaskTitle, dash.newTaskDescription, bound)
    /\ LET ok == net_ok /\ last'.res = OK
       IN  /\ awaiting' = awaiting \cup
                 {Continuation("handleCreateTask", dash.tasks, <<>>, 0, ok,
                               IF ok THEN last'.out ELSE <<>>)}
           /\ Counted(ok)
    /\ sent' = sent \cup {createTask(user, token)}
    /\ UNCHANGED <<route, home, chat, token, user, dash, reqs, verified>>

\* handleToggleComplete(task) up to its await
HandleToggleCompleteAwait(task, net_ok) ==
    /\ Shown
    /\ hist.calls < MaxCalls
    /\ ToggleCompletion(user, task.id, ~task.completed)
    /\ LET ok == net_ok /\ last'.res = OK
       IN  /\ awaiting' = awaiting \cup
                 {Continuation("handleToggleComplete", dash.tasks, <<>>, task.id,
                               ok, IF ok THEN last'.out ELSE <<>>)}
           /\ Counted(ok)
    /\ sent' = sent \cup {toggleTaskCompletion(user, token)}
    /\ UNCHANGED <<route, home, chat, token, user, dash, reqs, verified>>

\* handleDeleteTask(taskId) up to its await
HandleDeleteTaskAwait(task_id, net_ok) ==
    /\ Shown
    /\ hist.calls < MaxCalls
    /\ DeleteTask(user, task_id)
    /\ LET ok == net_ok /\ last'.removed
       IN  /\ awaiting' = awaiting \cup
                 {Continuation("handleDeleteTask", dash.tasks, <<>>, task_id,
                               ok, <<>>)}
           /\ Counted(ok)
    /\ sent' = sent \cup {deleteTask(user, token)}
    /\ UNCHANGED <<route, home, chat, token, user, dash, reqs, verified>>

\* handleUpdateTask up to its await: it returns at once without editingTask
HandleUpdateTaskAwait(net_ok) ==
    /\ Shown
    /\ hist.calls < MaxCalls
    /\ dash.editingTask # <<>>
    /\ UpdateTask(user, dash.editingTask[1].id, dash.editingTask[1].title,
                  dash.editingTask[1].description)
    /\ LET ok == net_ok /\ last'.res = OK
       IN  /\ awaiting' = awaiting \cup
                 {Continuation("handleUpdateTask", dash.tasks, dash.editingTask,
                               dash.editingTask[1].id, ok,
                               IF ok THEN last'.out ELSE <<>>)}
           /\ Counted(ok)
    /\ sent' = sent \cup {updateTask(user, token)}
    /\ UNCHANGED <<route, home, chat, token, user, dash, reqs, verified>>

\* -------------------------------------------------------------- ChatBot
\* onClick={() => setIsOpen(!isOpen)}
SetIsOpen ==
    /\ Shown
    /\ chat' = [chat EXCEPT !.isOpen = ~@]
    /\ UNCHANGED <<route, home, hist, dash, token, user, sent, awaiting>>

\* onChange={(e) => setMessage(e.target.value)}
SetMessage(m) ==
    /\ Shown
    /\ chat.isOpen
    /\ chat.message # m
    /\ chat' = [chat EXCEPT !.message = m]
    /\ UNCHANGED <<route, home, hist, dash, token, user, sent, awaiting>>

\* ChatBot.sendMessage up to its await (Send and Enter work while a request
\* is out): it returns at once for a message that is blank after trim; else
\* setLoading(true), the user's message joins the history, the input is
\* cleared and the chat request is sent
SendMessageAwait ==
    /\ Shown
    /\ chat.isOpen
    /\ hist.calls < MaxCalls
    /\ len(strip(chat.message)) > 0
    /\ chat' = [chat EXCEPT !.loading = TRUE,
                            !.chatHistory = Append(@, "user"),
                            !.message = EmptyStr,
                            !.inflight = @ + 1]
    /\ sent' = sent \cup {sendMessageRequest(user)}
    /\ hist' = [hist EXCEPT !.calls = @ + 1]
    /\ UNCHANGED <<route, home, dash, token, user, awaiting>>

\* ChatBot.sendMessage from the end of one of its requests on: with a reply
\* (ok) the answer joins the history and onTasksChanged = loadTasks(user.id)
\* requests the list, which is answered (load_ok) or not; a failure is only
\* logged; setLoading(false) in the finally
SendMessageResume(ok, load_ok) ==
    /\ chat.inflight > 0
    /\ chat' = [chat EXCEPT !.loading = FALSE,
                            !.inflight = @ - 1,
                            !.chatHistory = IF ok THEN Append(@, "ai") ELSE @]
    /\ IF ok
       THEN /\ sent' = sent \cup {getTasks(user, token)}
            /\ awaiting' = awaiting \cup
                  {Continuation("loadTasks", <<>>, <<>>, 0, load_ok,
                                IF load_ok THEN list_tasks(tasks, user) ELSE <<>>)}
       ELSE UNCHANGED <<sent, awaiting>>
    /\ UNCHANGED <<route, home, hist, dash, token, user>>

\* ----------------------------------------------------------------- inputs
\* create(title, description = ""): the description when none is given
DefaultDescription == EmptyStr

\* "a", " bb " with " ddd ", a whitespace-only title with an oversized
\* description, and a valid title with an oversized description
Inputs ==
    { <<Str(0, 1, 0), DefaultDescription>>,
      <<Str(1, 2, 1), Str(1, 3, 1)>>,
      <<Str(2, 0, 0), Str(0, MAX_DESCRIPTION + 1, 0)>>,
      <<Str(0, 1, 0), Str(0, MAX_DESCRIPTION + 1, 0)>> }

\* strings around the limits, with and without surrounding whitespace
Around(limit) ==
    { Str(w[1], b, w[2]) : w \in {<<0, 0>>, <<1, 0>>, <<0, 1>>},
                           b \in {1, limit - 1, limit, limit + 1} }
        \cup { Str(p, 0, 0) : p \in 0..1 }

BoundaryInputs == Around(MAX_TITLE) \X Around(MAX_DESCRIPTION)

\* every operation of every user, all within one reading of the clock
Next ==
    \/ \E u \in Users, in \in Inputs :
          CreateTask(u, in[1], in[2], MaxId) /\ UNCHANGED others
    \/ \E u \in Users, i \in TaskIds, in \in Inputs :
          UpdateTask(u, i, in[1], in[2]) /\ UNCHANGED others
    \/ \E u \in Users, i \in TaskIds, c \in BOOLEAN :
          ToggleCompletion(u, i, c) /\ UNCHANGED others
    \/ \E u \in Users, i \in TaskIds :
          DeleteTask(u, i) /\ UNCHANGED others
    \/ \E u \in Users, i \in TaskIds :
          GetTask(u, i) /\ UNCHANGED others
    \/ \E u \in Users :
          ListTasks(u) /\ UNCHANGED others

Spec == Init /\ [][Next]_vars

\* the operations of one user while the clock advances
NextClock ==
    \/ Tick
    \/ \E in \in Inputs :
          CreateTask("A", in[1], in[2], MaxId) /\ UNCHANGED others
    \/ \E i \in TaskIds, in \in Inputs :
          UpdateTask("A", i, in[1], in[2]) /\ UNCHANGED others
    \/ \E i \in TaskIds, c \in BOOLEAN :
          ToggleCompletion("A", i, c) /\ UNCHANGED others
    \/ \E i \in TaskIds :
          DeleteTask("A", i) /\ UNCHANGED others
    \/ \E i \in TaskIds :
          GetTask("A", i) /\ UNCHANGED others
    \/ ListTasks("A") /\ UNCHANGED others

SpecClock == Init /\ [][NextClock]_vars

\* create and update on inputs around the length limits
NextValidate ==
    \/ \E in \in BoundaryInputs :
          CreateTask("A", in[1], in[2], MaxIdV) /\ UNCHANGED others
    \/ \E in \in BoundaryInputs :
          UpdateTask("A", 1, in[1], in[2]) /\ UNCHANGED others

SpecValidate == Init /\ [][NextValidate]_vars

\* The store under request handlers that run at the same time: a task is
\* created, then updates, toggles and deletes of it proceed statement by
\* statement in any interleaving.
NextConcurrent ==
    \/ \E in \in Inputs :
          CreateTask("A", in[1], in[2], MaxIdV) /\ UNCHANGED others
    \/ \E r \in Requests, i \in 1..MaxIdV, in \in Inputs :
          BeginUpdate(r, "A", i, in[1], in[2]) /\ UNCHANGED <<verified, front>>
    \/ \E r \in Requests :
          EndUpdate(r) /\ UNCHANGED <<verified, front>>
    \/ \E r \in Requests, i \in 1..MaxIdV :
          BeginToggle(r, "A", i) /\ UNCHANGED <<verified, front>>
    \/ \E r \in Requests :
          EndToggle(r) /\ UNCHANGED <<verified, front>>
    \/ \E r \in Requests, i \in 1..MaxIdV :
          BeginDelete(r, "A", i) /\ UNCHANGED <<verified, front>>
    \/ \E r \in Requests :
          EndDelete(r) /\ UNCHANGED <<verified, front>>

SpecConcurrent == Init /\ [][NextConcurrent]_vars

\* what the browser leaves alone
back == <<tasks, next_id, clock, issued, last, reqs, verified, pages>>

\* the pages of the frontend: sign in or up, the dashboard, the chat widget
NextFrontend ==
    \/ \E u \in Users, ok \in BOOLEAN, has_token \in BOOLEAN :
          SignInApi(u, ok, has_token) /\ UNCHANGED back
    \/ \E u \in Users, ok \in BOOLEAN, has_token \in BOOLEAN :
          SignUpApi(u, ok, has_token) /\ UNCHANGED back
    \/ \E ok \in BOOLEAN :
          FetchUser(ok) /\ UNCHANGED back
    \/ \E blank \in BOOLEAN :
          HandleCreateTask(blank) /\ UNCHANGED back
    \/ HandleUpdateTask /\ UNCHANGED back
    \/ HandleDeleteTask /\ UNCHANGED back
    \/ HandleToggleComplete /\ UNCHANGED back
    \/ \E blank \in BOOLEAN, ok \in BOOLEAN :
          SendMessage(blank, ok) /\ UNCHANGED back
    \/ HandleSignOut /\ UNCHANGED back

SpecFrontend == Init /\ [][NextFrontend]_vars

\* what a routed request leaves alone
unrouted == <<reqs, token, user, sent, pages>>

\* the six endpoints, each called with any credential for any path user_id
NextRoute ==
    \/ \E v \in Users, u \in Users, in \in Inputs :
          Route(v, u, CreateTask(u, in[1], in[2], MaxId)) /\ UNCHANGED unrouted
    \/ \E v \in Users, u \in Users, i \in TaskIds, in \in Inputs :
          Route(v, u, UpdateTask(u, i, in[1], in[2])) /\ UNCHANGED unrouted
    \/ \E v \in Users, u \in Users, i \in TaskIds, c \in BOOLEAN :
          Route(v, u, ToggleCompletion(u, i, c)) /\ UNCHANGED unrouted
    \/ \E v \in Users, u \in Users, i \in TaskIds :
          Route(v, u, DeleteTask(u, i)) /\ UNCHANGED unrouted
    \/ \E v \in Users, u \in Users, i \in TaskIds :
          Route(v, u, GetTask(u, i)) /\ UNCHANGED unrouted
    \/ \E v \in Users, u \in Users :
          Route(v, u, ListTasks(u)) /\ UNCHANGED unrouted

SpecRoute == Init /\ [][NextRoute]_vars

\* the operations that write, of both users
NextWrite ==
    \/ \E u \in Users, in \in Inputs :
          CreateTask(u, in[1], in[2], MaxId) /\ UNCHANGED others
    \/ \E u \in Users, i \in TaskIds, in \in Inputs :
          UpdateTask(u, i, in[1], in[2]) /\ UNCHANGED others
    \/ \E u \in Users, i \in TaskIds :
          ToggleCompletion(u, i, TRUE) /\ UNCHANGED others
    \/ \E u \in Users, i \in TaskIds :
          DeleteTask(u, i) /\ UNCHANGED others

SpecWrite == Init /\ [][NextWrite]_vars

Range(seq) == { seq[k] : k \in 1..Len(seq) }

\* the server side, which the pages do not touch
server == <<tasks, next_id, clock, issued, last, reqs, verified>>

\* the address /dashboard is opened while the sign-in page is at rest
VisitDashboard ==
    /\ route = "/"
    /\ home.waiting = <<>>
    /\ route' = "/dashboard"
    /\ UNCHANGED <<home, hist, chat, dash, token, user, sent, awaiting>>

\* what is typed into the add form, the edit form and the chat input
NewTaskInputs == { <<Str(1, 2, 1), Str(1, 3, 1)>> }
EditInputs == { <<Str(0, 1, 0), DefaultDescription>> }
Messages == { EmptyStr, Str(0, 1, 0), Str(1, 0, 1) }

\* signing in, up and out, and the Dashboard's mount
NextAuth ==
    \/ ToggleSignUp /\ UNCHANGED server
    \/ \E u \in Users, ok \in BOOLEAN, has_token \in BOOLEAN :
          HandleSubmitAwait(u, ok, has_token) /\ UNCHANGED server
    \/ HandleSubmitResume /\ UNCHANGED server
    \/ VisitDashboard /\ UNCHANGED server
    \/ \E ok \in BOOLEAN, load_ok \in BOOLEAN :
          MountDashboard(ok, load_ok) /\ UNCHANGED server
    \/ \E c \in awaiting : Resume(c) /\ UNCHANGED server
    \/ SignOutAndLeave /\ UNCHANGED server

SpecAuth == Init /\ [][NextAuth]_vars

\* user A signs in and reaches the Dashboard
SignInA ==
    \/ HandleSubmitAwait("A", TRUE, TRUE) /\ UNCHANGED server
    \/ HandleSubmitResume /\ UNCHANGED server
    \/ MountDashboard(TRUE, TRUE) /\ UNCHANGED server

\* the ChatBot of a signed-in user, while tasks are added for the user on
\* the server
NextChat ==
    \/ SignInA
    \/ \E in \in NewTaskInputs :
          CreateTask("A", in[1], in[2], MaxId) /\ UNCHANGED others
    \/ \E c \in awaiting : Resume(c) /\ UNCHANGED server
    \/ SetIsOpen /\ UNCHANGED server
    \/ \E m \in Messages : SetMessage(m) /\ UNCHANGED server
    \/ SendMessageAwait /\ UNCHANGED server
    \/ \E ok \in BOOLEAN, load_ok \in BOOLEAN :
          SendMessageResume(ok, load_ok) /\ UNCHANGED server

SpecChat == Init /\ [][NextChat]_vars

\* the Dashboard of a signed-in user: its controls, its handlers, whose
\* requests may overlap, and the ChatBot's reloads
NextDashboard ==
    \/ SignInA
    \/ \E c \in awaiting : Resume(c) /\ UNCHANGED server
    \/ \E f \in Filters : SetFilter(f) /\ UNCHANGED server
    \/ \E b \in BOOLEAN : SetShowAddTask(b) /\ UNCHANGED server
    \/ \E in \in NewTaskInputs : TypeNewTask(in[1], in[2]) /\ UNCHANGED server
    \/ \E t \in Range(filteredTasks(dash.tasks, dash.filter)) :
          SetEditingTask(<<t>>) /\ UNCHANGED server
    \/ SetEditingTask(<<>>) /\ UNCHANGED server
    \/ \E in \in EditInputs : TypeEdit(in[1], in[2]) /\ UNCHANGED server
    \/ \E net_ok \in BOOLEAN : HandleCreateTaskAwait(net_ok, MaxId)
    \/ \E t \in Range(filteredTasks(dash.tasks, dash.filter)), net_ok \in BOOLEAN :
          HandleToggleCompleteAwait(t, net_ok)
    \/ \E t \in Range(filteredTasks(dash.tasks, dash.filter)), net_ok \in BOOLEAN :
          HandleDeleteTaskAwait(t.id, net_ok)
    \/ \E net_ok \in BOOLEAN : HandleUpdateTaskAwait(net_ok)

SpecDashboard == Init /\ [][NextDashboard]_vars

\* ========================================================== properties

\* position of an id in the order in which ids were handed out
IssuedAt(id) == CHOOSE k \in 1..Len(issued) : issued[k] = id

\* the step is the call of op (every call records itself in last; only Tick
\* moves the clock)
IsCall(op) == clock' = clock /\ last'.op = op

NotFoundResponse(op, user_id, task_id) ==
    Call(op, user_id, task_id, EmptyStr, EmptyStr, FALSE,
         "TaskNotFoundError", "none", "Task not found", <<>>, FALSE)

CreateReturnsFreshTask ==
    last.op = "create" =>
        /\ (ValidateInput(last.title, last.description).msg = OK) <=> (last.res = OK)
        /\ last.res = OK =>
             /\ Len(last.out) = 1
             /\ last.out[1].completed = FALSE
             /\ last.out[1].created_at = last.out[1].updated_at
             /\ Len(issued) >= 1
             /\ issued[Len(issued)] = last.out[1].id
             /\ \A k \in 1..(Len(issued) - 1) : issued[k] # last.out[1].id

\* C2 witness: a second successful create, after the clock has advanced
SecondCreateHappened ==
    /\ last.op = "create"
    /\ last.res = OK
    /\ Len(issued) >= 2
    /\ last.out[1].created_at >= 1

\* C3: no id is handed out twice, whatever was deleted in between.
IdsNeverReused ==
    \A j, k \in 1..Len(issued) : j # k => issued[j] # issued[k]

\* C3 witness: a create that follows the deletion of an earlier task
CreateAfterDeleteHappened ==
    /\ last.op = "create"
    /\ last.res = OK
    /\ \E k \in 1..(Len(issued) - 1) : get(tasks, issued[k]) = <<>>

\* C4: list_tasks(u) holds exactly the stored tasks of u, oldest first, and a
\* list call returns that sequence.
ListInCreationOrder ==
    /\ \A u \in Users :
        LET l == list_tasks(tasks, u)
        IN  /\ \A k \in 1..Len(l) : l[k].user_id = u /\ l[k] \in Range(tasks)
            /\ \A t \in Range(tasks) : t.user_id = u => t \in Range(l)
            /\ \A j, k \in 1..Len(l) :
                 j < k => /\ IssuedAt(l[j].id) < IssuedAt(l[k].id)
                          /\ l[j].created_at <= l[k].created_at
    /\ last.op = "list" => last.out = list_tasks(tasks, last.user_id)

\* C4 witness: an update or toggle of the oldest of several tasks of a user
OldestTaskModified ==
    /\ last.op \in {"update", "toggle"}
    /\ last.res = OK
    /\ Len(list_tasks(tasks, last.user_id)) >= 2
    /\ list_tasks(tasks, last.user_id)[1].id = last.task_id

\* the frame of a successful update: title and description replaced by the
\* trimmed input, everything else but updated_at kept
UpdateFrame(old, new) ==
    /\ new.title = strip(last'.title)
    /\ new.description = strip(last'.description)
    /\ new.id = old.id
    /\ new.user_id = old.user_id
    /\ new.completed = old.completed
    /\ new.created_at = old.created_at

\* C5 (as stated): a successful update keeps id, user_id, completed and
\* created_at, replaces title and description and makes updated_at strictly
\* greater than it was.
UpdateStrictlyIncreasesUpdatedAt ==
    [][ (IsCall("update") /\ last'.res = OK) =>
            /\ get(tasks, last'.task_id) # <<>>
            /\ get(tasks', last'.task_id) # <<>>
            /\ UpdateFrame(get(tasks, last'.task_id)[1], get(tasks', last'.task_id)[1])
            /\ get(tasks', last'.task_id)[1].updated_at >
                   get(tasks, last'.task_id)[1].updated_at ]_vars

\* C5 (amended): a successful update keeps id, user_id, completed and
\* created_at, replaces title and description, and sets updated_at to the
\* reading of the clock at the call, which is not below the previous
\* updated_at; the task it returns is the stored one.
UpdateRefreshesUpdatedAt ==
    [][ (IsCall("update") /\ last'.res = OK) =>
            /\ get(tasks, last'.task_id) # <<>>
            /\ get(tasks', last'.task_id) # <<>>
            /\ UpdateFrame(get(tasks, last'.task_id)[1], get(tasks', last'.task_id)[1])
            /\ get(tasks', last'.task_id)[1].updated_at = clock
            /\ get(tasks', last'.task_id)[1].updated_at >=
                   get(tasks, last'.task_id)[1].updated_at
            /\ last'.out = get(tasks', last'.task_id) ]_vars

\* C5 witness: an update, later than the creation, that changed the title of
\* a completed task
UpdateHappened ==
    /\ last.op = "update"
    /\ last.res = OK
    /\ last.out[1].completed
    /\ last.out[1].updated_at > last.out[1].created_at
    /\ last.out[1].title = Str(0, 2, 0)

\* C6 (as stated): a toggle_completion(u, i, true) right after a successful
\* toggle_completion(u, i, true) succeeds and leaves completed true, and a
\* toggle that asks for the value the task already has leaves it at that value.
ToggleToSameValueKeepsIt ==
    [][ IsCall("toggle") =>
            /\ ( /\ last.op = "toggle" /\ last.res = OK /\ last.completed
                 /\ last'.completed
                 /\ last'.user_id = last.user_id /\ last'.task_id = last.task_id )
                  => (last'.res = OK /\ last'.out[1].completed)
            /\ ( /\ last'.res = OK
                 /\ get(tasks, last'.task_id)[1].completed = last'.completed )
                  => last'.out[1].completed = last'.completed ]_vars

\* C6 (amended): a toggle right after a successful toggle of the same task
\* succeeds too; every successful toggle flips completed whatever value was
\* asked for, so the second of two successive toggles brings completed back
\* to what it was before the first.
ToggleFlipsCompleted ==
    [][ IsCall("toggle") =>
            /\ ( /\ last.op = "toggle" /\ last.res = OK
                 /\ last'.user_id = last.user_id /\ last'.task_id = last.task_id )
                  => /\ last'.res = OK
                     /\ last'.out[1].completed = ~last.out[1].completed
            /\ last'.res = OK
                  => /\ get(tasks, last'.task_id) # <<>>
                     /\ last'.out = get(tasks', last'.task_id)
                     /\ last'.out[1].completed =
                            ~get(tasks, last'.task_id)[1].completed ]_vars

\* C6 witness: a toggle that asked for true on a task that was already
\* completed (by an earlier toggle) and left it not completed
ToggleTrueOnCompletedHappened ==
    /\ last.op = "toggle"
    /\ last.res = OK
    /\ last.completed
    /\ ~last.out[1].completed

\* C7: delete never raises; it returns true exactly when the task is stored
\* under the calling user and then removes that task only; otherwise it
\* returns false and the stored tasks are unchanged.
DeleteReportsRemoval ==
    [][ IsCall("delete") =>
            LET owned == \E t \in Range(tasks) :
                            t.id = last'.task_id /\ t.user_id = last'.user_id
            IN  /\ last'.res = OK
                /\ last'.removed = owned
                /\ ~owned => tasks' = tasks
                /\ owned => /\ get(tasks', last'.task_id) = <<>>
                            /\ \A t \in Range(tasks) :
                                 t.id # last'.task_id => t \in Range(tasks')
                            /\ Range(tasks') \subseteq Range(tasks) ]_vars

\* C7 witness: a delete by a user who does not own the (stored) task
DeleteOfForeignTaskHappened ==
    /\ last.op = "delete"
    /\ ~last.removed
    /\ get(tasks, last.task_id) # <<>>

TitleAccepted == ~(last.res = "InvalidTaskDataError" /\ last.field = "title")

DescriptionAccepted ==
    ~(last.res = "InvalidTaskDataError" /\ last.field = "description")

\* C8 (as stated): create and update accept a title exactly when its trimmed
\* length is between 1 and 200.
TitleAcceptedIffTrimmedLengthInRange ==
    last.op \in {"create", "update"} =>
        (TitleAccepted <=> (/\ len(strip(last.title)) >= 1
                            /\ len(strip(last.title)) <= 200))

\* C8 (amended): create and update accept a title exactly when it is not
\* empty after trimming and its untrimmed length is at most 200, so the
\* surrounding whitespace counts towards the limit.
TitleAcceptedIffNonBlankAndRawLengthInRange ==
    last.op \in {"create", "update"} =>
        (TitleAccepted <=> (/\ len(strip(last.title)) >= 1
                            /\ len(last.title) <= 200))

\* C8 witness: a title of 200 characters plus one surrounding blank, rejected
PaddedTitleRejected ==
    /\ last.op \in {"create", "update"}
    /\ ~TitleAccepted
    /\ len(strip(last.title)) = 200

\* C9 (as stated): once the title is accepted, the description is accepted
\* exactly when its trimmed length is at most 1000.
DescriptionAcceptedIffTrimmedLengthInRange ==
    (last.op \in {"create", "update"} /\ validate_title(last.title) = OK) =>
        (DescriptionAccepted <=> len(strip(last.description)) <= 1000)

\* C9 (amended): once the title is accepted, the description is accepted
\* exactly when its untrimmed length is at most 1000; the empty description
\* is accepted, and it is the description of a create that gives none.
DescriptionAcceptedIffRawLengthInRange ==
    /\ (last.op \in {"create", "update"} /\ validate_title(last.title) = OK) =>
          /\ DescriptionAccepted <=> len(last.description) <= 1000
          /\ len(last.description) = 0 => DescriptionAccepted
    /\ len(DefaultDescription) = 0
    /\ (last.op = "create" /\ last.res = OK /\ last.description = DefaultDescription)
          => len(last.out[1].description) = 0

\* C9 witness: a description of 1000 characters plus one surrounding blank,
\* rejected
PaddedDescriptionRejected ==
    /\ last.op \in {"create", "update"}
    /\ ~DescriptionAccepted
    /\ len(strip(last.description)) = 1000

\* C10: when title and description are both invalid, create and update report
\* the title error.
TitleErrorReportedFirst ==
    ( /\ last.op \in {"create", "update"}
      /\ validate_title(last.title) # OK
      /\ validate_description(last.description) # OK )
        => /\ last.res = "InvalidTaskDataError"
           /\ last.field = "title"
           /\ last.msg = validate_title(last.title)

\* C10 witness: an update whose title and description are both invalid
BothFieldsInvalidHappened ==
    /\ last.op = "update"
    /\ validate_title(last.title) # OK
    /\ validate_description(last.description) # OK

\* the input fails one of the two validators
InvalidInput(title, description) ==
    validate_title(title) # OK \/ validate_description(description) # OK

\* user_id has a stored task with this id
Owns(store, user_id, task_id) ==
    \E t \in Range(store) : t.id = task_id /\ t.user_id = user_id

\* C11: a create_task whose input fails validation is answered with
\* InvalidTaskDataError and writes nothing: the stored tasks are the same, no
\* id is consumed (the counter and the ids handed out stay as they were) and
\* the owner's list is the same as before the call.
FailedCreateWritesNothing ==
    [][(IsCall("create") /\ InvalidInput(last'.title, last'.description))
          => /\ last'.res = "InvalidTaskDataError"
             /\ last'.out = <<>>
             /\ tasks' = tasks
             /\ next_id' = next_id
             /\ issued' = issued
             /\ list_tasks(tasks', last'.user_id) = list_tasks(tasks, last'.user_id)]_vars

\* C11 witness: a rejected create of a user who has a stored task, at a time
\* when the counter still had an id to hand out
FailedCreateHappened ==
    /\ last.op = "create"
    /\ last.res = "InvalidTaskDataError"
    /\ list_tasks(tasks, last.user_id) # <<>>
    /\ next_id <= MaxId

EveryRequestCarriesBearer ==
    \A r \in sent :
       \E h \in r.headers :
          /\ h.name = "Authorization"
          /\ h.value[1] = "Bearer"
          /\ h.value[2] # NoToken

\* C17: a request whose path user_id differs from the identity verified
\* from its credential is answered Forbidden and no service operation runs
\* for it: no task is returned, nothing is removed, and the store, the id
\* counter and the ids handed out are as before.
MismatchedOwnerRejected ==
    [][(verified' # last'.user_id)
          => /\ last'.op = "route"
             /\ last'.res = "Forbidden"
             /\ last'.out = <<>>
             /\ ~last'.removed
             /\ tasks' = tasks
             /\ next_id' = next_id
             /\ issued' = issued]_vars

\* C17 witness: a rejected request of one user on the path of another user
\* who has a stored task
MismatchedRequestHappened ==
    /\ verified # last.user_id
    /\ last.res = "Forbidden"
    /\ list_tasks(tasks, last.user_id) # <<>>

\* C18: after every step, every stored task has updated_at >= created_at,
\* and a task that is stored before and after the step (updated, toggled or
\* left alone) has the created_at it had before.
CreatedAtFixedAndNotAfterUpdatedAt ==
    [][/\ \A n \in Range(tasks') : n.updated_at >= n.created_at
       /\ \A t \in Range(tasks), n \in Range(tasks') :
             n.id = t.id => n.created_at = t.created_at]_vars

\* C18 witness: a toggle answered with a task whose updated_at is later than
\* its created_at
ToggleAfterTickHappened ==
    /\ last.op = "toggle"
    /\ last.out # <<>>
    /\ last.out[1].updated_at > last.out[1].created_at
    /\ get(tasks, last.task_id) = last.out

IsTrimmed(text) == text.pre = 0 /\ text.post = 0

\* C20: every stored title and description is free of leading and trailing
\* whitespace and no stored title is empty; the task a successful create or
\* update returns and stores has the given title and description with the
\* surrounding whitespace removed.
StoredTextIsTrimmedInput ==
    /\ \A t \in Range(tasks) :
          /\ IsTrimmed(t.title)
          /\ IsTrimmed(t.description)
          /\ t.title.body >= 1
    /\ (last.op \in {"create", "update"} /\ last.out # <<>>)
          => /\ last.out[1].title = Str(0, last.title.body, 0)
             /\ last.out[1].description = Str(0, last.description.body, 0)
             /\ get(tasks, last.out[1].id) = last.out

\* C20 witness: an accepted update whose title and description were both
\* given with surrounding whitespace
PaddedUpdateStored ==
    /\ last.op = "update"
    /\ last.out # <<>>
    /\ ~IsTrimmed(last.title)
    /\ ~IsTrimmed(last.description)

\* the operations one caller can ask for on one task, at a later reading of
\* the clock
OpsOn(user_id, task_id) ==
    { Op("update", user_id, task_id, in[1], in[2], clock + 1) : in \in Inputs }
       \cup { Op(k, user_id, task_id, EmptyStr, EmptyStr, clock + 1) :
                 k \in {"toggle", "delete"} }

\* C21: an update, toggle or delete leaves every task other than the one it
\* names as it was, and when it succeeds, following it by any operation on a
\* different (user, task) pair gives the same store as the two operations
\* in the other order.
OtherTasksIndependent ==
    [][(IsCall("update") \/ IsCall("toggle") \/ IsCall("delete"))
          => LET a == Op(last'.op, last'.user_id, last'.task_id,
                         last'.title, last'.description, clock)
             IN  /\ tasks' = Apply(tasks, a)
                 /\ \A t \in Range(tasks) :
                       (t.id # a.task_id \/ t.user_id # a.user_id)
                          => /\ get(tasks', t.id) = <<t>>
                             /\ IndexOf(tasks', t.id) <= IndexOf(tasks, t.id)
                 /\ \A u \in Users, i \in TaskIds :
                       ((last'.out # <<>> \/ last'.removed)
                        /\ (u # a.user_id \/ i # a.task_id))
                          => \A b \in OpsOn(u, i) :
                                Apply(tasks', b) = Apply(Apply(tasks, b), a)]_vars

\* C21 witness: a delete of the older of two stored tasks, the other one
\* belonging to the other user and completed
DeleteBesideOtherTaskHappened ==
    /\ last.op = "delete"
    /\ last.removed
    /\ \E t \in Range(tasks) :
          t.user_id # last.user_id /\ t.id > last.task_id /\ t.completed

\* C22: a successful toggle stores and returns the task with completed
\* flipped (false becomes true, true becomes false), updated_at set to the
\* current reading of the clock, and id, owner, title, description and
\* created_at as they were; a further toggle of the result, now or at any
\* later reading, has the completed value from before the first, and a
\* toggle right after a successful toggle of the same task returns the
\* opposite of what that one returned.
ToggleFlipsAndTwiceRestores ==
    [][(IsCall("toggle") /\ last'.res = OK)
          => LET old == get(tasks, last'.task_id)[1]
                 new == last'.out[1]
             IN  /\ get(tasks', last'.task_id) = <<new>>
                 /\ old.completed = FALSE => new.completed = TRUE
                 /\ old.completed = TRUE => new.completed = FALSE
                 /\ new.updated_at = clock
                 /\ new.updated_at >= old.updated_at
                 /\ new.id = old.id
                 /\ new.user_id = old.user_id
                 /\ new.title = old.title
                 /\ new.description = old.description
                 /\ new.created_at = old.created_at
                 /\ \A n \in clock..MaxClock :
                       toggle_completion(new, n).completed = old.completed
                 /\ (/\ last.op = "toggle" /\ last.res = OK
                     /\ last.user_id = last'.user_id
                     /\ last.task_id = last'.task_id)
                       => new.completed = ~last.out[1].completed]_vars

\* C22 witness: the second of two toggles of a task, at a later reading of
\* the clock than the task's creation, leaving the task not completed
SecondToggleHappened ==
    /\ last.op = "toggle"
    /\ last.res = OK
    /\ ~last.out[1].completed
    /\ last.out[1].updated_at > last.out[1].created_at
    /\ get(tasks, last.task_id) = last.out

\* C23: an update_task whose title is invalid, on a task id the caller has
\* no task for (never created, deleted, or another user's), is answered with
\* the validation error of the title, not with TaskNotFoundError.
ValidationBeforeExistenceCheck ==
    (/\ last.op = "update"
     /\ validate_title(last.title) # OK
     /\ ~Owns(tasks, last.user_id, last.task_id))
       => /\ last.res = "InvalidTaskDataError"
          /\ last.field = "title"
          /\ last.msg = validate_title(last.title)
          /\ last.out = <<>>

\* C23 witness: an update with an invalid title on the id of a deleted task
InvalidUpdateOfMissingTaskHappened ==
    /\ last.op = "update"
    /\ validate_title(last.title) # OK
    /\ last.task_id \in Range(issued)
    /\ get(tasks, last.task_id) = <<>>

\* C24: the Dashboard displays the tasks in the order list_tasks returns
\* them, oldest first: of two displayed tasks that the server holds for the
\* user, the one the server lists first is displayed first -- after the
\* load, after a create made on the Dashboard and after a reload. The code
\* puts a created task in front of the list instead.
DisplayedInListOrder ==
    LET listed == list_tasks(tasks, user)
        Pos(id) == CHOOSE k \in 1..Len(listed) : listed[k].id = id
        Listed(id) == \E k \in 1..Len(listed) : listed[k].id = id
    IN  Shown =>
          \A j \in 1..Len(dash.tasks), k \in 1..Len(dash.tasks) :
             (j < k /\ Listed(dash.tasks[j].id) /\ Listed(dash.tasks[k].id))
                => Pos(dash.tasks[j].id) < Pos(dash.tasks[k].id)

\* C25: the statistics agree with the task list: Total is the number of
\* tasks, Done the number of completed ones, Pending is Total - Done and the
\* size of the 'active' view; 'active' and 'completed' split the 'all' view,
\* which is the whole list; the percentage is Done / Total rounded to the
\* nearest whole number, within 0..100, and 0 without tasks.
StatsConsistent ==
    LET ts == dash.tasks
        done == { k \in 1..Len(ts) : ts[k].completed }
        view(f) == Range(filteredTasks(ts, f))
        p == completionPercentage(ts)
    IN  /\ completedCount(ts) = Cardinality(done)
        /\ activeCount(ts) = Len(ts) - Cardinality(done)
        /\ activeCount(ts) = Len(filteredTasks(ts, "active"))
        /\ completedCount(ts) = Len(filteredTasks(ts, "completed"))
        /\ filteredTasks(ts, "all") = ts
        /\ view("active") \cup view("completed") = view("all")
        /\ view("active") \cap view("completed") = {}
        /\ p \in 0..100
        /\ (Len(ts) = 0 => p = 0)
        /\ (Len(ts) > 0 => /\ 2 * Len(ts) * p <= 200 * Cardinality(done) + Len(ts)
                           /\ 2 * Len(ts) * (p + 1) > 200 * Cardinality(done) + Len(ts))

\* C25 witness: two tasks are displayed, one of them completed, in the
\* 'active' view
HalfDoneDisplayed ==
    /\ Shown
    /\ Len(dash.tasks) = 2
    /\ completedCount(dash.tasks) = 1
    /\ completionPercentage(dash.tasks) = 50
    /\ dash.filter = "active"

\* C26: once every request of the Dashboard's handlers has succeeded and
\* returned, the displayed list holds exactly the tasks the server holds for
\* the user, with the server's field values. Handlers whose requests overlap
\* each write the list of the render they were called in, so one discards
\* the other's result.
DashboardShowsServerTasks ==
    (Shown /\ awaiting = {} /\ ~hist.failed)
       => /\ Range(dash.tasks) = Range(list_tasks(tasks, user))
          /\ Len(dash.tasks) = Len(list_tasks(tasks, user))

\* C27: a failed create, toggle, update or delete request leaves the
\* Dashboard as it was -- the list, the typed title and description, the
\* open add form, the edit mode -- both when it is sent and when its failure
\* arrives.
FailedRequestChangesNothing ==
    [][ /\ \A c \in awaiting :
             (awaiting' = awaiting \ {c} /\ c.handler # "loadTasks" /\ ~c.ok)
                => dash' = dash
        /\ \A c \in awaiting' \ awaiting :
             (c.handler # "loadTasks" /\ ~c.ok)
                => /\ dash' = dash
                   /\ c.handler = "handleCreateTask"
                         => dash'.showAddTask /\ len(strip(dash'.newTaskTitle)) > 0
                   /\ c.handler = "handleUpdateTask"
                         => dash'.editingTask # <<>> /\ dash'.editingTask = c.editingTask
      ]_vars

\* C27 witness: the only request was a create, it has failed and returned,
\* and the add form is still open with the title in it
FailedCreateReturned ==
    /\ Shown
    /\ hist.calls = 1
    /\ hist.failed
    /\ awaiting = {}
    /\ createTask(user, token) \in sent
    /\ dash.showAddTask
    /\ len(strip(dash.newTaskTitle)) > 0
    /\ dash.tasks = <<>>

\* C28: from signOut until the next sign-in or sign-up that stores a token,
\* no token is stored: getToken returns null, getCurrentUser returns null
\* and makes no request, and a Dashboard that mounts is sent back to '/'
\* without a user and without a request for tasks.
SignedOutMeansNoToken ==
    [][ /\ hist'.signedOut
             => /\ getToken(token') = NoToken
                /\ \A ok \in BOOLEAN :
                      getCurrentUser(getToken(token'), ok) = [user |-> NoUser, fetched |-> {}]
        /\ (hist.signedOut /\ route = "/dashboard")
             => /\ route' = "/"
                /\ user' = NoUser
                /\ sent' = sent
                /\ awaiting' = {}
        /\ (hist.signedOut /\ ~hist'.signedOut)
             => /\ home.waiting # <<>>
                /\ home.waiting[1].ok
                /\ token' = TokenOf(home.waiting[1].u)
      ]_vars

\* C28 witness: after a sign-out the Dashboard was opened and sent its
\* visitor back to '/'
RedirectedAfterSignOut ==
    /\ hist.signedOut
    /\ hist.redirected
    /\ route = "/"
    /\ token = NoToken
    /\ sent # {}

\* C29: signInApi and signUpApi store a token only from an ok response that
\* contains access_token; on a response that is not ok the token stays as it
\* was, Home shows an error, stays on its page and ends with loading false.
TokenStoredOnlyOnSuccess ==
    [][ /\ (token' # token /\ token' # NoToken)
             => /\ home.waiting # <<>>
                /\ home.waiting[1].ok
                /\ home.waiting[1].has_token
                /\ token' = TokenOf(home.waiting[1].u)
        /\ (home.waiting # <<>> /\ home'.waiting = <<>>)
             => /\ ~(home.waiting[1].ok /\ home.waiting[1].has_token) => token' = token
                /\ ~home.waiting[1].ok
                      => /\ home'.error # NoError
                         /\ route' = "/"
                         /\ ~home'.loading
      ]_vars

\* C29 witness: a sign-in was refused while a token of an earlier sign-in
\* is stored; the error is shown on the sign-in page
RefusedSignInShown ==
    /\ route = "/"
    /\ home.error = "Sign in failed"
    /\ ~home.loading
    /\ home.waiting = <<>>
    /\ token # NoToken

\* C30: the ChatBot's loading flag is true exactly while at least one of
\* its chat requests is out: true from a send on, also when sendMessage is
\* called again before the reply, and false only when every request has
\* completed or failed. The finally of the first request to end clears the
\* flag while later ones are still out.
LoadingWhileRequestOut ==
    chat.loading <=> chat.inflight > 0

TypeOK ==
    /\ next_id \in 1..(MaxId + 1)
    /\ clock \in 0..MaxClock
    /\ Len(tasks) <= MaxId
    /\ \A r \in Requests : reqs[r].pc \in {"idle", "found", "done"}
    /\ verified \in Users
    /\ token \in {NoToken} \cup {TokenOf(u) : u \in Users}
    /\ user \in {NoUser} \cup Users
    /\ route \in {"/", "/dashboard"}
    /\ home.waiting # <<>> => home.loading
    /\ dash.filter \in Filters
    /\ Len(dash.tasks) <= MaxId
    /\ dash.editingTask # <<>> => Len(dash.editingTask) = 1
    /\ \A c \in awaiting : c.ok \in BOOLEAN
    /\ hist.calls \in 0..MaxCalls
    /\ chat.inflight \in 0..MaxCalls

====
